---- MODULE Spec2Model ----
(***************************************************************************)
(* Model of calendar_analyzer.py: the main script (pattern file protocol,  *)
(* analyze_events, the four statistics, the spreadsheet table) and the     *)
(* date arithmetic it relies on.                                           *)
(*                                                                         *)
(* Time is counted in seconds.  A naive date-time ("wall clock") is the    *)
(* number of seconds from 2050-01-01 00:00:00 to its own calendar fields   *)
(* (negative before 2050); a date is the number of days from 2050-01-01.   *)
(* A duration (timedelta) is a number of seconds; total_hours values are   *)
(* kept as seconds, i.e. as the exact numerator of hours = seconds / 3600. *)
(* An aware date-time of the local zone is kept as its wall clock: Python  *)
(* compares and subtracts two values that carry the same zone object by    *)
(* their wall clocks.                                                      *)
(***************************************************************************)
EXTENDS Integers, Sequences, FiniteSets, TLC

\* ------------------------------------------------------------------ bounds
\* Largest number of components in the calendar files of one run.
MaxEvents == 2

\* ------------------------------------------------- proleptic Gregorian dates
DAY == 86400
HOUR == 3600

\* date(y, m, d) as days since 2050-01-01 (datetime's calendar arithmetic).
DaysFromCivil(y, m, d) ==
  LET yy  == IF m <= 2 THEN y - 1 ELSE y
      era == yy \div 400
      yoe == yy - era * 400
      mp  == IF m > 2 THEN m - 3 ELSE m + 9
      doy == (153 * mp + 2) \div 5 + d - 1
      doe == yoe * 365 + yoe \div 4 - yoe \div 100 + doy
  IN  era * 146097 + doe - 748688

\* The (year, month, day) fields of a day number.
CivilFromDays(n) ==
  LET z   == n + 748688
      era == z \div 146097
      doe == z - era * 146097
      yoe == (doe - doe \div 1460 + doe \div 36524 - doe \div 146096) \div 365
      doy == doe - (365 * yoe + yoe \div 4 - yoe \div 100)
      mp  == (5 * doy + 2) \div 153
      d   == doy - (153 * mp + 2) \div 5 + 1
      m   == IF mp < 10 THEN mp + 3 ELSE mp - 9
      y   == yoe + era * 400 + (IF m <= 2 THEN 1 ELSE 0)
  IN  [year |-> y, month |-> m, day |-> d]

\* datetime.date(): the day number of a wall clock.
DateOf(wall) == wall \div DAY

\* date.weekday() / datetime.weekday(): Monday = 0 ... Sunday = 6.
\* 2050-01-01 is a Saturday.
Weekday(day) == (day + 5) % 7

\* datetime(y, mo, d, h, mi, s) as a wall clock.
WallOf(y, mo, d, h, mi, s) == DaysFromCivil(y, mo, d) * DAY + h * HOUR + mi * 60 + s

\* ------------------------------------------------------------- time zones
\* The n-th Sunday of month m of year y, as a day number.
NthSunday(y, m, n) ==
  LET first == DaysFromCivil(y, m, 1)
  IN  first + ((6 - Weekday(first)) % 7) + 7 * (n - 1)

\* tz.gettz('America/Los_Angeles'): the UTC offset in force at a UTC instant.
\* Daylight time runs from the second Sunday of March, 02:00 PST (10:00 UTC),
\* to the first Sunday of November, 02:00 PDT (09:00 UTC).
LocalOffset(instant) ==
  LET y == CivilFromDays(instant \div DAY).year
  IN  IF /\ instant >= NthSunday(y, 3, 2) * DAY + 10 * HOUR
         /\ instant <  NthSunday(y, 11, 1) * DAY + 9 * HOUR
      THEN -7 * HOUR ELSE -8 * HOUR

\* The UTC offset a zone gives to one of its own wall clocks (tzinfo.utcoffset
\* of an aware value as icalendar parses it): "UTC" for a value ending in Z,
\* "NY" for TZID=America/New_York, "LA" for TZID=America/Los_Angeles.  A
\* floating value (no zone, "none") denotes local time.
ZoneOffset(zone, wall) ==
  LET y   == CivilFromDays(wall \div DAY).year
      dst == /\ wall >= NthSunday(y, 3, 2) * DAY + 2 * HOUR
             /\ wall <  NthSunday(y, 11, 1) * DAY + 2 * HOUR
  IN  CASE zone = "UTC" -> 0
        [] zone = "NY"  -> IF dst THEN -4 * HOUR ELSE -5 * HOUR
        [] OTHER        -> IF dst THEN -7 * HOUR ELSE -8 * HOUR

\* The instant (UTC seconds) a parsed DTSTART/DTEND date-time denotes.
InstantOf(v) == v.wall - ZoneOffset(v.tz, v.wall)

\* x.replace(tzinfo=timezone.utc).astimezone(self.local_tz): the calendar
\* fields are kept and re-labelled UTC, then converted; the result is a wall
\* clock of the local zone.
ReplaceUtcToLocal(v) == v.wall + LocalOffset(v.wall)

\* datetime.combine(d, datetime.min.time(), tzinfo=self.local_tz)
CombineMidnight(v) == v.day * DAY

\* ------------------------------------------------------------------- text
\* A string is a sequence of one-character strings.
UpperChars == <<"A","B","C","D","E","F","G","H","I","J","K","L","M",
                "N","O","P","Q","R","S","T","U","V","W","X","Y","Z">>
LowerChars == <<"a","b","c","d","e","f","g","h","i","j","k","l","m",
                "n","o","p","q","r","s","t","u","v","w","x","y","z">>
DigitChars == <<"0","1","2","3","4","5","6","7","8","9">>

Range(s) == {s[i] : i \in 1..Len(s)}

\* str.lower() on one character, and on a string.
LowerMap == [c \in Range(UpperChars) |-> LowerChars[CHOOSE i \in 1..26 : UpperChars[i] = c]]
LowerChar(c) == IF c \in DOMAIN LowerMap THEN LowerMap[c] ELSE c
Lower(s) == [i \in 1..Len(s) |-> LowerChar(s[i])]

\* str.strip(): leading and trailing blanks removed.
Strip(s) ==
  LET keep == {i \in 1..Len(s) : s[i] # " "}
  IN  IF keep = {} THEN <<>>
      ELSE SubSeq(s, CHOOSE i \in keep : \A j \in keep : i <= j,
                     CHOOSE i \in keep : \A j \in keep : i >= j)

\* The character class [A-Za-z0-9] of the keyword expression (the Cyrillic
\* ranges are outside the alphabet of the model).
WordChars == Range(UpperChars) \cup Range(LowerChars) \cup Range(DigitChars)
IsWordChar(c) == c \in WordChars

\* re.findall(r"[A-Za-z...0-9]{3,}", text): the maximal runs of at least
\* three word characters, as a set.
FindWords(text) ==
  {SubSeq(text, i, j) : <<i, j>> \in
     {ij \in (1..Len(text)) \X (1..Len(text)) :
        /\ ij[2] - ij[1] >= 2
        /\ \A k \in ij[1]..ij[2] : IsWordChar(text[k])
        /\ (ij[1] = 1 \/ ~IsWordChar(text[ij[1] - 1]))
        /\ (ij[2] = Len(text) \/ ~IsWordChar(text[ij[2] + 1]))}}

\* re.compile(regex, re.IGNORECASE) for the expressions of the model: a
\* literal, optionally preceded by the inline flag (?i).  The compiled
\* pattern is the lower-cased literal.
Compile(regex) ==
  LET flag == <<"(", "?", "i", ")">>
      body == IF Len(regex) >= 4 /\ SubSeq(regex, 1, 4) = flag
              THEN SubSeq(regex, 5, Len(regex)) ELSE regex
  IN  Lower(body)

\* regex.search(text): the literal occurs somewhere, case ignored.
Search(regex, text) ==
  \E i \in 1..(Len(text) - Len(regex) + 1) :
     Lower(SubSeq(text, i, i + Len(regex) - 1)) = regex

\* ------------------------------------------------------------ program state
VARIABLES
  args,           \* parse_args(): [files, start, end]; files are the parsed
                  \* calendars (cal.walk() of each), start/end the day numbers
  patterns_file,  \* patterns.txt on disk: [exists, lines]
  pc,             \* position of the main script
  patterns,       \* dict name -> compiled expression
  results,        \* events_data returned by analyze_events
  unmatched_events,  \* the list printed by analyze_events
  day_dist,       \* get_day_stats(results)
  time_spent,     \* get_time_spent(results)
  weekly_stats,   \* get_weekly_stats(results)
  monthly_stats,  \* get_monthly_stats(results)
  df,             \* the table written to the spreadsheet: [columns, rows]
  generated       \* history: whether the script wrote the patterns file, in
                  \* this run ("this_run") or in an earlier one ("earlier_run")

vars == <<args, patterns_file, pc, patterns, results, unmatched_events,
          day_dist, time_spent, weekly_stats, monthly_stats, df, generated>>

\* An empty dict / a value not computed yet.
Empty == <<>>

\* ------------------------------------------------------- calendar values
\* component.get(...) of an absent property.
NoValue == [kind |-> "none"]
\* A DTSTART/DTEND of type DATE, and of type DATE-TIME in a zone.
DateValue(y, m, d) == [kind |-> "date", day |-> DaysFromCivil(y, m, d)]
DateTimeValue(y, m, d, h, mi, zone) ==
  [kind |-> "datetime", wall |-> WallOf(y, m, d, h, mi, 0), tz |-> zone]

\* start_time and end_time of the main script: local midnight of --start and
\* 23:59:59 of --end, both labelled with the local zone.
start_time == args.start * DAY
end_time == args.end * DAY + 23 * HOUR + 59 * 60 + 59

\* ------------------------------------------------------------ analyze_events
\* x + timedelta(hours=1): a date ignores the hours, a date-time moves on its
\* own wall clock.
PlusOneHour(v) == IF v.kind = "datetime" THEN [v EXCEPT !.wall = @ + HOUR] ELSE v

\* Lines 55-64: a date-time is re-labelled UTC and converted to local time, a
\* date becomes local midnight.
Normalize(v) == IF v.kind = "datetime" THEN ReplaceUtcToLocal(v) ELSE CombineMidnight(v)

\* Lines 41-46: the component is a VEVENT with a DTSTART.
HasStart(c) == c.name = "VEVENT" /\ c.dtstart.kind # "none"

\* Lines 47-64.
RawEnd(c) == IF c.dtend.kind = "none" THEN PlusOneHour(c.dtstart) ELSE c.dtend
event_start(c) == Normalize(c.dtstart)
event_end(c) == Normalize(RawEnd(c))
is_all_day(c) == c.dtstart.kind # "datetime"

\* The window test with the boundaries excluded.
InWindowStrict(c, st, en) == ~(event_end(c) <= st \/ event_start(c) >= en)

\* Lines 66-67: the event is not skipped by the window test.  Both sides carry
\* the same zone object, so they compare by wall clock.
InWindow(c, st, en) == ~(event_end(c) < st \/ event_start(c) > en)

\* Line 69.
Duration(c) == IF is_all_day(c) THEN 0 ELSE event_end(c) - event_start(c)

\* Lines 71-74.
searchable_text(c) == c.summary \o <<" ">> \o c.description \o <<" ">> \o c.location

\* The tuple appended to events_data and unmatched_events.
Entry(c) == [start |-> event_start(c), summary |-> c.summary, duration |-> Duration(c)]

\* for cal in self.calendars: for component in cal.walk()
Flatten(files) ==
  LET F[i \in 0..Len(files)] == IF i = 0 THEN <<>> ELSE F[i - 1] \o files[i]
  IN  F[Len(files)]

\* The component is processed: it reaches the matching loop of lines 76-83.
Processed(c, st, en) == HasStart(c) /\ InWindow(c, st, en)

\* analyze_events that records an event only once per pattern, dropping a
\* second occurrence with the same start, summary and duration.
analyze_events_dedup(files, st, en, pats) ==
  LET comps == Flatten(files)
      Data[i \in 0..Len(comps)] ==
        IF i = 0 THEN [p \in DOMAIN pats |-> <<>>]
        ELSE IF ~Processed(comps[i], st, en) THEN Data[i - 1]
        ELSE [p \in DOMAIN pats |->
                IF /\ Search(pats[p], searchable_text(comps[i]))
                   /\ Entry(comps[i]) \notin Range(Data[i - 1][p])
                THEN Append(Data[i - 1][p], Entry(comps[i]))
                ELSE Data[i - 1][p]]
      Un[i \in 0..Len(comps)] ==
        IF i = 0 THEN <<>>
        ELSE IF /\ Processed(comps[i], st, en)
                /\ \A p \in DOMAIN pats : ~Search(pats[p], searchable_text(comps[i]))
             THEN Append(Un[i - 1], Entry(comps[i]))
             ELSE Un[i - 1]
  IN  [events_data |-> Data[Len(comps)], unmatched_events |-> Un[Len(comps)]]

\* analyze_events: events_data and unmatched_events after the loops.
analyze_events(files, st, en, pats) ==
  LET comps == Flatten(files)
      Data[i \in 0..Len(comps)] ==
        IF i = 0 THEN [p \in DOMAIN pats |-> <<>>]
        ELSE IF ~Processed(comps[i], st, en) THEN Data[i - 1]
        ELSE [p \in DOMAIN pats |->
                IF Search(pats[p], searchable_text(comps[i]))
                THEN Append(Data[i - 1][p], Entry(comps[i]))
                ELSE Data[i - 1][p]]
      Un[i \in 0..Len(comps)] ==
        IF i = 0 THEN <<>>
        ELSE IF /\ Processed(comps[i], st, en)
                /\ \A p \in DOMAIN pats : ~Search(pats[p], searchable_text(comps[i]))
             THEN Append(Un[i - 1], Entry(comps[i]))
             ELSE Un[i - 1]
  IN  [events_data |-> Data[Len(comps)], unmatched_events |-> Un[Len(comps)]]

\* -------------------------------------------------------------- formatting
\* A number as n decimal digits, zero padded (the %Y, %m, %d fields).
RECURSIVE Digits(_, _)
Digits(v, n) ==
  IF n = 0 THEN <<>> ELSE Append(Digits(v \div 10, n - 1), DigitChars[(v % 10) + 1])

\* strftime('%Y-%m-%d') and strftime('%Y-%m') of a wall clock.
FormatYMD(wall) ==
  LET c == CivilFromDays(DateOf(wall))
  IN  Digits(c.year, 4) \o <<"-">> \o Digits(c.month, 2) \o <<"-">> \o Digits(c.day, 2)
FormatYM(wall) ==
  LET c == CivilFromDays(DateOf(wall))
  IN  Digits(c.year, 4) \o <<"-">> \o Digits(c.month, 2)

\* int(s) of a string of decimal digits.
DigitValue == [c \in Range(DigitChars) |-> CHOOSE d \in 0..9 : DigitChars[d + 1] = c]
RECURSIVE ParseInt(_)
ParseInt(s) ==
  IF s = <<>> THEN 0
  ELSE 10 * ParseInt(SubSeq(s, 1, Len(s) - 1)) + DigitValue[s[Len(s)]]

\* s.split(sep): the parts between the separators.
RECURSIVE Split(_, _)
Split(s, sep) ==
  IF \A i \in 1..Len(s) : s[i] # sep THEN <<s>>
  ELSE LET k == CHOOSE i \in 1..Len(s) :
                  s[i] = sep /\ \A j \in 1..(i - 1) : s[j] # sep
       IN  <<SubSeq(s, 1, k - 1)>> \o Split(SubSeq(s, k + 1, Len(s)), sep)

\* A float quotient a / b, kept exact as a fraction.
Quotient(a, b) == [num |-> a, den |-> b]

\* ---------------------------------------------------------------- statistics
days == <<"Monday", "Tuesday", "Wednesday", "Thursday", "Friday", "Saturday", "Sunday">>

\* get_day_stats with the weekday taken as Sunday = 0.
get_day_stats_sunday_first(events_data) ==
  [pattern \in DOMAIN events_data |->
     LET events == events_data[pattern]
         zero == [day \in Range(days) |->
                    [count |-> 0, total_hours |-> 0, avg_hours |-> Quotient(0, 1)]]
         Dist[i \in 0..Len(events)] ==
           IF i = 0 THEN zero
           ELSE LET day == days[((Weekday(DateOf(events[i].start)) + 1) % 7) + 1]
                IN  [Dist[i - 1] EXCEPT
                       ![day].count = @ + 1,
                       ![day].total_hours = @ + events[i].duration]
         dist == Dist[Len(events)]
     IN  [day \in Range(days) |->
            IF dist[day].count > 0
            THEN [dist[day] EXCEPT
                    !.avg_hours = Quotient(dist[day].total_hours, dist[day].count)]
            ELSE dist[day]]]

\* get_day_stats, lines 92-116.
get_day_stats(events_data) ==
  [pattern \in DOMAIN events_data |->
     LET events == events_data[pattern]
         zero == [day \in Range(days) |->
                    [count |-> 0, total_hours |-> 0, avg_hours |-> Quotient(0, 1)]]
         Dist[i \in 0..Len(events)] ==
           IF i = 0 THEN zero
           ELSE LET day == days[Weekday(DateOf(events[i].start)) + 1]
                IN  [Dist[i - 1] EXCEPT
                       ![day].count = @ + 1,
                       ![day].total_hours = @ + events[i].duration]
         dist == Dist[Len(events)]
     IN  [day \in Range(days) |->
            IF dist[day].count > 0
            THEN [dist[day] EXCEPT
                    !.avg_hours = Quotient(dist[day].total_hours, dist[day].count)]
            ELSE dist[day]]]

\* get_time_spent, lines 118-122.
get_time_spent(events_data) ==
  [pattern \in DOMAIN events_data |->
     LET events == events_data[pattern]
         Sum[i \in 0..Len(events)] ==
           IF i = 0 THEN 0 ELSE Sum[i - 1] + events[i].duration
     IN  Sum[Len(events)]]

\* The key of the week of an event, with weeks that start on Sunday.
week_key_sunday(start) ==
  FormatYMD(start - ((Weekday(DateOf(start)) + 1) % 7) * DAY)

\* Lines 129-130: the key of the week of an event.
week_key(start) ==
  FormatYMD(start - Weekday(DateOf(start)) * DAY)

\* get_weekly_stats that assigns the duration instead of adding it.
get_weekly_stats_overwrite(events_data) ==
  [pattern \in DOMAIN events_data |->
     LET events == events_data[pattern]
         Acc[i \in 0..Len(events)] ==
           IF i = 0 THEN Empty
           ELSE LET key == week_key(events[i].start)
                    prev == Acc[i - 1]
                    base == IF key \in DOMAIN prev THEN prev
                            ELSE prev @@ (key :>
                                   [total_hours |-> 0, avg_hours |-> Quotient(0, 1)])
                IN  [base EXCEPT ![key].total_hours = events[i].duration]
         acc == Acc[Len(events)]
     IN  [week \in DOMAIN acc |->
            [acc[week] EXCEPT !.avg_hours = Quotient(acc[week].total_hours, 7)]]]

\* get_weekly_stats, lines 124-137.
get_weekly_stats(events_data) ==
  [pattern \in DOMAIN events_data |->
     LET events == events_data[pattern]
         Acc[i \in 0..Len(events)] ==
           IF i = 0 THEN Empty
           ELSE LET key == week_key(events[i].start)
                    prev == Acc[i - 1]
                    base == IF key \in DOMAIN prev THEN prev
                            ELSE prev @@ (key :>
                                   [total_hours |-> 0, avg_hours |-> Quotient(0, 1)])
                IN  [base EXCEPT ![key].total_hours = @ + events[i].duration]
         acc == Acc[Len(events)]
     IN  [week \in DOMAIN acc |->
            [acc[week] EXCEPT !.avg_hours = Quotient(acc[week].total_hours, 7)]]]

\* The number of days of a month without the December case.
days_in_month_no_rollover(month_key) ==
  LET parts == Split(month_key, "-")
      year  == ParseInt(parts[1])
      month == ParseInt(parts[2])
      next_month == DaysFromCivil(year, (month % 12) + 1, 1)
  IN  next_month - DaysFromCivil(year, month, 1)

\* Lines 151-156: the number of days of the month of a key.
days_in_month(month_key) ==
  LET parts == Split(month_key, "-")
      year  == ParseInt(parts[1])
      month == ParseInt(parts[2])
      next_month == IF month = 12 THEN DaysFromCivil(year + 1, 1, 1)
                    ELSE DaysFromCivil(year, month + 1, 1)
  IN  next_month - DaysFromCivil(year, month, 1)

\* get_monthly_stats, lines 139-159.  weeks_in_month = days_in_month / 7.0,
\* avg_hours = total_hours / weeks_in_month.
get_monthly_stats(events_data) ==
  [pattern \in DOMAIN events_data |->
     LET events == events_data[pattern]
         Acc[i \in 0..Len(events)] ==
           IF i = 0 THEN Empty
           ELSE LET month_key == FormatYM(events[i].start)
                    prev == Acc[i - 1]
                    base == IF month_key \in DOMAIN prev THEN prev
                            ELSE prev @@ (month_key :>
                                   [total_hours |-> 0, avg_hours |-> Quotient(0, 1),
                                    event_count |-> 0])
                IN  [base EXCEPT ![month_key].total_hours = @ + events[i].duration,
                                 ![month_key].event_count = @ + 1]
         acc == Acc[Len(events)]
     IN  [month_key \in DOMAIN acc |->
            [acc[month_key] EXCEPT
               !.avg_hours = Quotient(acc[month_key].total_hours * 7,
                                      days_in_month(month_key))]]]

\* ------------------------------------------------ load_or_generate_patterns
\* Reading the patterns file with the first line of a name kept.
load_patterns_keep_first(lines) ==
  LET Pat[i \in 0..Len(lines)] ==
        IF i = 0 THEN Empty
        ELSE LET line == Strip(lines[i])
                 prev == Pat[i - 1]
             IN  IF line = <<>> \/ ":" \notin Range(line) THEN prev
                 ELSE LET parts == Split(line, ":")
                          name  == Strip(parts[1])
                          regex == Strip(SubSeq(line, Len(parts[1]) + 2, Len(line)))
                      IN  [n \in DOMAIN prev \cup {name} |->
                             IF n \in DOMAIN prev THEN prev[n] ELSE Compile(regex)]
  IN  Pat[Len(lines)]

\* Lines 165-173: the dict read from an existing patterns file.
load_patterns(lines) ==
  LET Pat[i \in 0..Len(lines)] ==
        IF i = 0 THEN Empty
        ELSE LET line == Strip(lines[i])
                 prev == Pat[i - 1]
             IN  IF line = <<>> \/ ":" \notin Range(line) THEN prev
                 ELSE LET parts == Split(line, ":")
                          name  == Strip(parts[1])
                          regex == Strip(SubSeq(line, Len(parts[1]) + 2, Len(line)))
                      IN  [n \in DOMAIN prev \cup {name} |->
                             IF n = name THEN Compile(regex) ELSE prev[n]]
  IN  Pat[Len(lines)]

\* Lines 176-192: the lower-cased keywords of all VEVENT components.
keywords(files) ==
  LET comps == Flatten(files)
  IN  UNION {{Lower(w) : w \in FindWords(searchable_text(comps[i]))} :
               i \in {j \in 1..Len(comps) : comps[j].name = "VEVENT"}}

\* Code point order of the characters of a keyword, and of keywords.
CodeOrder == DigitChars \o UpperChars \o LowerChars
OrdMap == [c \in Range(CodeOrder) |-> CHOOSE i \in 1..Len(CodeOrder) : CodeOrder[i] = c]
Ord(c) == OrdMap[c]
StrLess(a, b) ==
  \E k \in 1..(Len(b)) :
     /\ \A j \in 1..(k - 1) : j <= Len(a) /\ a[j] = b[j]
     /\ (k > Len(a) \/ (k <= Len(a) /\ Ord(a[k]) < Ord(b[k])))

\* sorted(keywords)
RECURSIVE Sorted(_)
Sorted(S) ==
  IF S = {} THEN <<>>
  ELSE LET least == CHOOSE x \in S : \A y \in S \ {x} : StrLess(x, y)
       IN  <<least>> \o Sorted(S \ {least})

\* Lines 194-196: the lines written to a new patterns file.
GeneratedLines(files) ==
  LET words == Sorted(keywords(files))
  IN  [i \in 1..Len(words) |->
         words[i] \o <<":", "(", "?", "i", ")">> \o words[i]]

\* ------------------------------------------------------------ the table
\* str(n) of a non-negative number.
RECURSIVE Decimal(_)
Decimal(n) ==
  IF n < 10 THEN <<DigitChars[n + 1]>>
  ELSE Append(Decimal(n \div 10), DigitChars[(n % 10) + 1])

\* Line 252: one date per day of range((end_time - start_time).days + 1).
date_list(st, en) ==
  LET n == ((en - st) \div DAY) + 1
  IN  [i \in 1..(IF n > 0 THEN n ELSE 0) |-> st + (i - 1) * DAY]

\* Line 253: f"{d.day}-{d.month}-{d.year}"
date_str(wall) ==
  LET c == CivilFromDays(DateOf(wall))
  IN  Decimal(c.day) \o <<"-">> \o Decimal(c.month) \o <<"-">> \o Decimal(c.year)

\* Lines 259-263: the hours (in seconds) of a pattern's events on one day.
HoursOnDay(events, day) ==
  LET Sum[i \in 0..Len(events)] ==
        IF i = 0 THEN 0
        ELSE IF DateOf(events[i].start) = DateOf(day)
             THEN Sum[i - 1] + events[i].duration
             ELSE Sum[i - 1]
  IN  Sum[Len(events)]

\* round(total_hours, 1), in tenths of an hour.
RoundTenths(seconds) == (seconds + 180) \div 360

\* Lines 264 and 269: the cell of the table.
Cell(total_hours) ==
  IF total_hours > 0 THEN [text |-> "number", tenths |-> RoundTenths(total_hours)]
  ELSE [text |-> "-", tenths |-> 0]

\* Lines 252-269: the table, one row per pattern, one column per date.
BuildTable(pats, res, st, en) ==
  LET dates == date_list(st, en)
  IN  [columns |-> [i \in 1..Len(dates) |-> date_str(dates[i])],
       rows |-> [pattern \in DOMAIN pats |->
                   [i \in 1..Len(dates) |->
                      Cell(HoursOnDay(res[pattern], dates[i]))]]]

\* ------------------------------------------------------------------ actions
\* Line 217: load_or_generate_patterns(args.files).
load_or_generate_patterns ==
  /\ pc = "start"
  /\ IF patterns_file.exists
     THEN /\ patterns' = load_patterns(patterns_file.lines)
          /\ UNCHANGED <<patterns_file, generated>>
     ELSE /\ patterns_file' = [exists |-> TRUE, lines |-> GeneratedLines(args.files)]
          /\ patterns' = Empty
          /\ generated' = "this_run"
  /\ pc' = "loaded"
  /\ UNCHANGED <<args, results, unmatched_events, day_dist, time_spent,
                 weekly_stats, monthly_stats, df>>

\* Lines 218-219: no patterns, the script exits.
ExitNoPatterns ==
  /\ pc = "loaded"
  /\ DOMAIN patterns = {}
  /\ pc' = "exited"
  /\ UNCHANGED <<args, patterns_file, patterns, results, unmatched_events, day_dist,
                 time_spent, weekly_stats, monthly_stats, df, generated>>

\* Lines 221-222.
Analyze ==
  /\ pc = "loaded"
  /\ DOMAIN patterns # {}
  /\ LET r == analyze_events(args.files, start_time, end_time, patterns)
     IN  /\ results' = r.events_data
         /\ unmatched_events' = r.unmatched_events
  /\ pc' = "analyzed"
  /\ UNCHANGED <<args, patterns_file, patterns, day_dist, time_spent,
                 weekly_stats, monthly_stats, df, generated>>

\* Lines 224-227.
ComputeStats ==
  /\ pc = "analyzed"
  /\ day_dist' = get_day_stats(results)
  /\ time_spent' = get_time_spent(results)
  /\ weekly_stats' = get_weekly_stats(results)
  /\ monthly_stats' = get_monthly_stats(results)
  /\ pc' = "stats"
  /\ UNCHANGED <<args, patterns_file, patterns, results, unmatched_events, df, generated>>

\* Lines 252-272.
WriteReport ==
  /\ pc = "stats"
  /\ df' = BuildTable(patterns, results, start_time, end_time)
  /\ pc' = "done"
  /\ UNCHANGED <<args, patterns_file, patterns, results, unmatched_events, day_dist,
                 time_spent, weekly_stats, monthly_stats, generated>>

\* The script is started again with the same arguments; only the patterns
\* file on disk survives the previous run.
RunAgain ==
  /\ pc \in {"exited", "done"}
  /\ pc' = "start"
  /\ patterns' = Empty
  /\ results' = Empty
  /\ unmatched_events' = <<>>
  /\ day_dist' = Empty
  /\ time_spent' = Empty
  /\ weekly_stats' = Empty
  /\ monthly_stats' = Empty
  /\ df' = Empty
  /\ generated' = IF generated = "this_run" THEN "earlier_run" ELSE generated
  /\ UNCHANGED <<args, patterns_file>>

Next ==
  \/ load_or_generate_patterns
  \/ ExitNoPatterns
  \/ Analyze
  \/ ComputeStats
  \/ WriteReport
  \/ RunAgain

\* -------------------------------------------------------------- the inputs
\* All sequences over S of length at most n.
SeqsUpTo(S, n) == UNION {[1..k -> S] : k \in 0..n}

\* A VEVENT component, and the state before the script starts.
Event(dtstart, dtend, text) ==
  [name |-> "VEVENT", dtstart |-> dtstart, dtend |-> dtend,
   summary |-> text[1], description |-> text[2], location |-> text[3]]

InitialState(files, first_day, last_day, file) ==
  /\ args = [files |-> files, start |-> first_day, end |-> last_day]
  /\ patterns_file = file
  /\ pc = "start"
  /\ patterns = Empty
  /\ results = Empty
  /\ unmatched_events = <<>>
  /\ day_dist = Empty
  /\ time_spent = Empty
  /\ weekly_stats = Empty
  /\ monthly_stats = Empty
  /\ df = Empty
  /\ generated = "no"

NoFile == [exists |-> FALSE, lines |-> <<>>]

\* The strings of the inputs.
TxtMorningRun == <<"M", "o", "r", "n", "i", "n", "g", " ", "r", "u", "n">>

Txt5kmAtPark == <<"5", "k", "m", " ", "a", "t", " ", "p", "a", "r", "k">>

TxtGymRun == <<"G", "Y", "M", " ", "r", "u", "n">>

TxtGymnastics == <<"G", "y", "m", "n", "a", "s", "t", "i", "c", "s">>

TxtYogaClass == <<"Y", "o", "g", "a", " ", "c", "l", "a", "s", "s">>

LineRun == <<" ", "r", "u", "n", " ", ":", " ", "(", "?", "i", ")", "R", "U", "N", " ">>

LineGymYoga == <<"g", "y", "m", ":", " ", "y", "o", "g", "a", " ">>

LineGymFlagUpper == <<"g", "y", "m", ":", "(", "?", "i", ")", "G", "y", "m">>

LineGymFlag == <<"g", "y", "m", ":", "(", "?", "i", ")", "g", "y", "m">>

LineGym == <<"g", "y", "m", ":", "g", "y", "m">>

LineRunRun == <<"r", "u", "n", ":", "r", "u", "n">>

LineYoga == <<"y", "o", "g", "a", ":", "y", "o", "g", "a">>

LineNoColon == <<"n", "o", "c", "o", "l", "o", "n">>

LineAll == <<"a", "l", "l", ":">>

LineTwoColons == <<"x", ":", "a", ":", "b">>

LineNotes == <<"n", "o", "t", "e", "s">>

TxtGym == <<"G", "y", "m">>

TxtRun == <<"R", "u", "n">>

TxtNap == <<"N", "a", "p">>

TxtYo == <<"Y", "o">>

TxtGa == <<"g", "a">>

\* Runs that vary the text of the events and the patterns file.  The window is
\* 2025-01-06 .. 2025-01-07; an event is inside it or two weeks later.
Texts ==
  { <<TxtGym, <<>>, <<>>>>,
    <<TxtMorningRun, Txt5kmAtPark, <<>>>>,
    <<TxtGymRun, <<>>, TxtGym>>,
    <<TxtYo, TxtGa, <<>>>>,
    <<TxtGymnastics, <<>>, <<>>>> }

TextComponents ==
  {Event(DateTimeValue(2025, 1, 6, 18, 0, "UTC"),
         DateTimeValue(2025, 1, 6, 19, 0, "UTC"), t) : t \in Texts}
  \cup {Event(DateTimeValue(2025, 1, 20, 18, 0, "UTC"),
              DateTimeValue(2025, 1, 20, 19, 0, "UTC"), <<TxtGymnastics, <<>>, <<>>>>),
        [Event(DateTimeValue(2025, 1, 6, 18, 0, "UTC"), NoValue,
               <<TxtRun, <<>>, <<>>>>) EXCEPT !.name = "VTODO"],
        Event(NoValue, NoValue, <<TxtYogaClass, <<>>, <<>>>>)}

UserFiles ==
  { [exists |-> TRUE, lines |->
       << LineGym, <<>>, LineNoColon, LineRun, LineGymYoga >>],
    [exists |-> TRUE, lines |->
       << LineAll, LineGymFlagUpper, LineTwoColons >>],
    [exists |-> TRUE, lines |-> << <<>>, LineNotes >>] }

Init ==
  \E comps \in SeqsUpTo(TextComponents, MaxEvents) :
    \E k \in 0..Len(comps) :
      \E file \in {NoFile} \cup UserFiles :
        InitialState(<<SubSeq(comps, 1, k), SubSeq(comps, k + 1, Len(comps))>>,
                     DaysFromCivil(2025, 1, 6), DaysFromCivil(2025, 1, 7), file)

Spec == Init /\ [][Next]_vars

\* Runs that vary the times of the events.  The window is the two days that
\* end on a day the local zone changes its offset: 2024-03-09 .. 2024-03-10
\* (daylight time starts at 10:00 UTC) and 2024-11-02 .. 2024-11-03 (it ends at
\* 09:00 UTC).  start_utc and end_utc are the instants of start_time and
\* end_time.
TimeWindows ==
  { [first |-> DaysFromCivil(2024, 3, 9), change |-> WallOf(2024, 3, 10, 10, 0, 0),
     start_utc |-> WallOf(2024, 3, 9, 8, 0, 0), end_utc |-> WallOf(2024, 3, 11, 6, 59, 59)],
    [first |-> DaysFromCivil(2024, 11, 2), change |-> WallOf(2024, 11, 3, 9, 0, 0),
     start_utc |-> WallOf(2024, 11, 2, 7, 0, 0), end_utc |-> WallOf(2024, 11, 4, 7, 59, 59)] }

Zoned(wall, zone) == [kind |-> "datetime", wall |-> wall, tz |-> zone]
OnDay(day) == [kind |-> "date", day |-> day]

\* The DTSTART and DTEND values of the events of a window: events across the
\* change of offset (with a DTEND, half an hour long, without a DTEND), an
\* event whose DTEND is before its DTSTART, values of another zone and of no
\* zone, all-day events inside and before the window, an event that starts at
\* end_time, and one that starts before start_time and ends after it.
TimedPairs(w) ==
  { <<Zoned(w.change - HOUR, "UTC"), Zoned(w.change + HOUR, "UTC")>>,
    <<Zoned(w.change - 1800, "UTC"), Zoned(w.change, "UTC")>>,
    <<Zoned(w.change - HOUR, "UTC"), NoValue>>,
    <<Zoned(w.change + 3 * HOUR, "UTC"), Zoned(w.change + 2 * HOUR, "UTC")>>,
    <<Zoned(w.first * DAY + 5 * HOUR, "NY"), Zoned(w.first * DAY + 6 * HOUR, "NY")>>,
    <<Zoned(w.first * DAY + 12 * HOUR, "NY"), Zoned(w.first * DAY + 13 * HOUR, "NY")>>,
    <<Zoned(w.first * DAY + 10 * HOUR, "none"), Zoned(w.first * DAY + 11 * HOUR, "none")>>,
    <<OnDay(w.first), OnDay(w.first + 1)>>,
    <<OnDay(w.first - 2), OnDay(w.first - 1)>>,
    <<OnDay(w.first + 1), NoValue>>,
    <<Zoned(w.end_utc, "UTC"), NoValue>>,
    <<Zoned(w.start_utc - HOUR, "UTC"), Zoned(w.start_utc + HOUR, "UTC")>> }

\* Values that occur with a text the pattern matches and with one it does not:
\* an event after the change, an all-day event that ends at start_time, and an
\* event that starts one second after end_time.
TimedPairsBothTexts(w) ==
  { <<Zoned(w.change + 3 * HOUR, "UTC"), Zoned(w.change + 4 * HOUR, "UTC")>>,
    <<OnDay(w.first - 1), OnDay(w.first)>>,
    <<Zoned(w.end_utc + 1, "UTC"), Zoned(w.end_utc + 1 + HOUR, "UTC")>> }

TimeComponents(w) ==
  {Event(p[1], p[2], <<TxtGym, <<>>, <<>>>>) : p \in TimedPairs(w) \cup TimedPairsBothTexts(w)}
  \cup {Event(p[1], p[2], <<TxtNap, <<>>, <<>>>>) : p \in TimedPairsBothTexts(w)}
  \cup {[Event(Zoned(w.change + 3 * HOUR, "UTC"), NoValue, <<TxtGym, <<>>, <<>>>>)
           EXCEPT !.name = "VTODO"],
        Event(NoValue, Zoned(w.change + 3 * HOUR, "UTC"), <<TxtGym, <<>>, <<>>>>)}

TimeFile == [exists |-> TRUE, lines |-> << LineGymFlag >>]

InitTime ==
  \E w \in TimeWindows :
    \E comps \in SeqsUpTo(TimeComponents(w), MaxEvents) :
      \E file \in {NoFile, TimeFile} :
        InitialState(<<comps>>, w.first, w.first + 1, file)

SpecTime == InitTime /\ [][Next]_vars

\* Runs that vary the month and the week of the events.  The window is the
\* four days around the first day of a month: the two last days of the month
\* before and the first two days of the month.  None of the windows holds a
\* change of the local offset.
MonthStarts ==
  { DaysFromCivil(2025, 1, 1), DaysFromCivil(2000, 3, 1), DaysFromCivil(2024, 3, 1),
    DaysFromCivil(2025, 3, 1), DaysFromCivil(2100, 3, 1), DaysFromCivil(2025, 2, 1),
    DaysFromCivil(2025, 4, 1), DaysFromCivil(2025, 6, 1), DaysFromCivil(2025, 8, 1),
    DaysFromCivil(2025, 10, 1), DaysFromCivil(2025, 12, 1) }

\* Events of one hour on each side of the month boundary, one from 23:30 (or
\* 00:30 in daylight time) for an hour, one of ninety minutes, an all-day
\* event on the last day of the month, and two events that match two patterns.
StatComponents(b) ==
  {Event(Zoned(b * DAY + h * HOUR, "UTC"), Zoned(b * DAY + (h + 1) * HOUR, "UTC"),
         <<TxtGym, <<>>, <<>>>>) : h \in {-30, -6, 44}}
  \cup {Event(Zoned(b * DAY + 7 * HOUR + 1800, "UTC"),
              Zoned(b * DAY + 8 * HOUR + 1800, "UTC"), <<TxtGym, <<>>, <<>>>>),
        Event(Zoned(b * DAY + 20 * HOUR, "UTC"),
              Zoned(b * DAY + 21 * HOUR + 1800, "UTC"), <<TxtGym, <<>>, <<>>>>),
        Event(OnDay(b - 1), OnDay(b), <<TxtGym, <<>>, <<>>>>),
        Event(Zoned(b * DAY - 6 * HOUR, "UTC"), Zoned(b * DAY - 4 * HOUR, "UTC"),
              <<TxtGymRun, <<>>, <<>>>>),
        Event(Zoned(b * DAY + 20 * HOUR, "UTC"), Zoned(b * DAY + 21 * HOUR, "UTC"),
              <<TxtGymRun, <<>>, <<>>>>)}

StatFile == [exists |-> TRUE, lines |-> << LineGym, LineRunRun, LineYoga >>]

InitStats ==
  \E b \in MonthStarts :
    \E comps \in SeqsUpTo(StatComponents(b), MaxEvents) :
      \E file \in {NoFile, StatFile} :
        InitialState(<<comps>>, b - 2, b + 1, file)

SpecStats == InitStats /\ [][Next]_vars

\* =================================================================== claims
Components == Flatten(args.files)
Analysed == pc \in {"analyzed", "stats", "done"}

\* The event of a component lies in the window: a VEVENT with a DTSTART whose
\* normalized interval overlaps [start_time, end_time].
OverlapsWindow(c) ==
  /\ c.name = "VEVENT"
  /\ c.dtstart.kind # "none"
  /\ event_end(c) >= start_time
  /\ event_start(c) <= end_time

\* The entries of the components that pass a test, in calendar order.
EntriesWhere(Test(_)) ==
  LET sel == SelectSeq(Components, Test)
  IN  [i \in 1..Len(sel) |-> Entry(sel[i])]

\* C1: after analyze_events the result has exactly the pattern names as keys;
\* under each pattern it lists, in order and once per occurrence, the entries
\* of the in-window events whose text the pattern matches (an event matching
\* several patterns is under each of them, the same event in two files is
\* listed twice); the unmatched list holds exactly the in-window events that
\* no pattern matches.
Thm_C1 ==
  Analysed =>
    /\ DOMAIN results = DOMAIN patterns
    /\ \A p \in DOMAIN patterns :
         LET Matching(c) == OverlapsWindow(c) /\ Search(patterns[p], searchable_text(c))
         IN  results[p] = EntriesWhere(Matching)
    /\ LET NoMatch(c) ==
             /\ OverlapsWindow(c)
             /\ \A p \in DOMAIN patterns : ~Search(patterns[p], searchable_text(c))
       IN  unmatched_events = EntriesWhere(NoMatch)

\* The same event occurs in both calendar files and matches two patterns: it
\* is listed twice under each.
Witness_C1 ==
  /\ pc = "analyzed"
  /\ Len(args.files[1]) = 1 /\ Len(args.files[2]) = 1
  /\ \E p, q \in DOMAIN results :
       /\ p # q
       /\ Len(results[p]) = 2
       /\ results[p][1] = results[p][2]
       /\ results[q] = results[p]

\* C4: a component is processed (recorded under a pattern or reported as
\* unmatched) exactly when it is a VEVENT with a DTSTART whose normalized
\* interval overlaps the closed window; nothing else adds an entry.
Thm_C4 ==
  Analysed =>
    LET Recorded == Range(unmatched_events) \cup UNION {Range(results[p]) : p \in DOMAIN results}
        inside == {i \in 1..Len(Components) : OverlapsWindow(Components[i])}
    IN  /\ \A i \in inside : Entry(Components[i]) \in Recorded
        /\ \A e \in Recorded : \E i \in inside : Entry(Components[i]) = e
        /\ \A p \in DOMAIN results :
             Len(results[p]) + Len(unmatched_events) <= Cardinality(inside)

\* An event that ends exactly at start_time is recorded, and an event that
\* starts after end_time is left out.
Witness_C4 ==
  /\ pc = "analyzed"
  /\ \E i, j \in 1..Len(Components) :
       /\ HasStart(Components[i]) /\ event_end(Components[i]) = start_time
       /\ Entry(Components[i]) \in Range(unmatched_events)
       /\ HasStart(Components[j]) /\ event_start(Components[j]) > end_time
       /\ \A p \in DOMAIN results : results[p] = <<>>

\* The name and the expression of a line of the patterns file.
ValidLine(l) == Strip(l) # <<>> /\ ":" \in Range(Strip(l))
FirstColon(l) == CHOOSE i \in 1..Len(l) : l[i] = ":" /\ \A j \in 1..(i - 1) : l[j] # ":"
NameOf(l) == Strip(SubSeq(Strip(l), 1, FirstColon(Strip(l)) - 1))
RegexOf(l) == Strip(SubSeq(Strip(l), FirstColon(Strip(l)) + 1, Len(Strip(l))))

\* pats is what the lines of an existing patterns file define: one pattern
\* per name, the last line of a name winning.
LoadedFrom(lines, pats) ==
  LET valid == {i \in 1..Len(lines) : ValidLine(lines[i])}
  IN  /\ DOMAIN pats = {NameOf(lines[i]) : i \in valid}
      /\ \A n \in DOMAIN pats :
           LET last == CHOOSE i \in valid :
                         /\ NameOf(lines[i]) = n
                         /\ \A j \in valid : NameOf(lines[j]) = n => j <= i
           IN  pats[n] = Compile(RegexOf(lines[last]))

\* C9 (as stated): a run that follows the run which generated the patterns
\* file analyses the events; it never exits without analysis.
Claim_C9 == generated = "earlier_run" => pc # "exited"

C9_State ==
  /\ generated = "this_run" =>
       /\ pc \in {"loaded", "exited"}
       /\ DOMAIN patterns = {}
       /\ results = Empty /\ df = Empty
       /\ patterns_file.exists
       /\ Range(patterns_file.lines) =
            {w \o <<":", "(", "?", "i", ")">> \o w : w \in keywords(args.files)}
       /\ Len(patterns_file.lines) = Cardinality(keywords(args.files))
  /\ (generated # "this_run" /\ pc # "start") =>
       /\ patterns_file.exists
       /\ LoadedFrom(patterns_file.lines, patterns)
  /\ (generated = "earlier_run" /\ pc # "start") =>
       /\ DOMAIN patterns = keywords(args.files)
       /\ \A w \in DOMAIN patterns : patterns[w] = w
       /\ (keywords(args.files) # {} => pc # "exited")
       /\ (keywords(args.files) = {} => pc \in {"loaded", "exited"})

C9_Step ==
  /\ (pc = "start" /\ ~patterns_file.exists) => generated' = "this_run"
  /\ (pc = "loaded" /\ generated = "this_run") => pc' = "exited"
  /\ patterns_file.exists => patterns_file' = patterns_file

\* C9 (amended): without a patterns file the run writes one line word:(?i)word
\* per distinct keyword, has no patterns and exits before any analysis; an
\* existing file is never changed and is read as the claim says; the run
\* after a generation loads one pattern per generated keyword and analyses
\* when there is at least one keyword, and exits again when there is none.
Thm_C9 == []C9_State /\ [][C9_Step]_vars

\* The second run has loaded two generated patterns and produced the table.
Witness_C9 ==
  /\ generated = "earlier_run"
  /\ pc = "done"
  /\ Cardinality(DOMAIN patterns) >= 2

\* The entries recorded by analyze_events, and the in-window components.
Recorded == Range(unmatched_events) \cup UNION {Range(results[p]) : p \in DOMAIN results}
Inside == {i \in 1..Len(Components) : OverlapsWindow(Components[i])}

\* C3 (as stated): every timed event is recorded with the local wall clock of
\* the instant its DTSTART denotes and with the time elapsed between the
\* instants of DTSTART and DTEND.
Claim_C3 ==
  Analysed =>
    \A i \in Inside :
      LET c == Components[i]
          begin == InstantOf(c.dtstart)
      IN  (c.dtstart.kind = "datetime" /\ c.dtend.kind = "datetime") =>
            [start |-> begin + LocalOffset(begin), summary |-> c.summary,
             duration |-> InstantOf(c.dtend) - begin] \in Recorded

\* C5 (as stated): an all-day event is recorded at local midnight of its date
\* with duration zero, a timed event with a DTEND with the duration
\* DTEND - DTSTART, a timed event without a DTEND with one hour, and a DTEND
\* not before its DTSTART never gives a negative duration.
Claim_C5 ==
  Analysed =>
    \A i \in Inside :
      LET c == Components[i]
          expected ==
            IF c.dtstart.kind = "date" THEN 0
            ELSE IF c.dtend.kind = "none" THEN HOUR
            ELSE InstantOf(c.dtend) - InstantOf(c.dtstart)
      IN  /\ (c.dtstart.kind = "date" \/ c.dtend.kind # "date") =>
               [start |-> event_start(c), summary |-> c.summary,
                duration |-> expected] \in Recorded
          /\ c.dtstart.kind = "date" => event_start(c) = c.dtstart.day * DAY
          /\ (/\ c.dtstart.kind = "datetime" /\ c.dtend.kind = "datetime"
              /\ InstantOf(c.dtend) >= InstantOf(c.dtstart)) =>
               \A e \in Recorded :
                  (e.start = event_start(c) /\ e.summary = c.summary) => e.duration >= 0

\* The sum of f over the set S.
RECURSIVE SumOver(_, _)
SumOver(f, S) ==
  IF S = {} THEN 0
  ELSE LET x == CHOOSE y \in S : TRUE IN f[x] + SumOver(f, S \ {x})

\* The durations and the number of the events of a list that pass a test.
TotalWhere(events, Test(_)) ==
  SumOver([k \in 1..Len(events) |-> IF Test(events[k]) THEN events[k].duration ELSE 0],
          1..Len(events))
CountWhere(events, Test(_)) == Cardinality({k \in 1..Len(events) : Test(events[k])})

\* C10 (as stated): the table has one column per date from --start to --end,
\* every recorded event starts on one of these dates, the hours of a row add
\* up to the pattern's time spent, and a cell is '-' exactly when the hours
\* of the pattern on that date are zero.
Claim_C10 ==
  pc = "done" =>
    /\ df.columns = [i \in 1..(args.end - args.start + 1) |->
                       date_str((args.start + i - 1) * DAY)]
    /\ \A p \in DOMAIN results :
         /\ \A k \in 1..Len(results[p]) :
              DateOf(results[p][k].start) \in args.start..args.end
         /\ SumOver([d \in args.start..args.end |-> HoursOnDay(results[p], d * DAY)],
                    args.start..args.end) = time_spent[p]
         /\ \A i \in 1..Len(df.columns) :
              (df.rows[p][i].text = "-") <=>
                (HoursOnDay(results[p], (args.start + i - 1) * DAY) = 0)

HasStats == pc \in {"stats", "done"}

\* C2: for every pattern the weekday totals, the week totals and the month
\* totals each add up to the time spent, which is the sum of the recorded
\* durations; the weekday counts and the monthly event counts add up to the
\* number of recorded events; and the whole duration of an event is in the
\* weekday bucket of its local start.
Thm_C2 ==
  HasStats =>
    \A p \in DOMAIN results :
      LET Each(e) == TRUE
      IN  /\ time_spent[p] = TotalWhere(results[p], Each)
          /\ SumOver([d \in Range(days) |-> day_dist[p][d].total_hours], Range(days))
               = time_spent[p]
          /\ SumOver([w \in DOMAIN weekly_stats[p] |-> weekly_stats[p][w].total_hours],
                     DOMAIN weekly_stats[p]) = time_spent[p]
          /\ SumOver([m \in DOMAIN monthly_stats[p] |-> monthly_stats[p][m].total_hours],
                     DOMAIN monthly_stats[p]) = time_spent[p]
          /\ SumOver([d \in Range(days) |-> day_dist[p][d].count], Range(days))
               = Len(results[p])
          /\ SumOver([m \in DOMAIN monthly_stats[p] |-> monthly_stats[p][m].event_count],
                     DOMAIN monthly_stats[p]) = Len(results[p])
          /\ \A n \in 0..6 :
               LET OnDayN(e) == Weekday(DateOf(e.start)) = n
               IN  day_dist[p][days[n + 1]].total_hours = TotalWhere(results[p], OnDayN)

\* Two events of a pattern in two months, one of them running past local
\* midnight into the next day.
Witness_C2 ==
  /\ pc = "stats"
  /\ \E p \in DOMAIN results :
       /\ Len(results[p]) = 2
       /\ Cardinality(DOMAIN monthly_stats[p]) = 2
       /\ \A k \in 1..2 : results[p][k].duration > 0
       /\ \E k \in 1..2 :
            DateOf(results[p][k].start + results[p][k].duration)
              # DateOf(results[p][k].start)

\* The day number a key YYYY-MM-DD names, and the year and month of YYYY-MM.
KeyDay(key) ==
  LET parts == Split(key, "-")
  IN  DaysFromCivil(ParseInt(parts[1]), ParseInt(parts[2]), ParseInt(parts[3]))
KeyYear(key) == ParseInt(Split(key, "-")[1])
KeyMonth(key) == ParseInt(Split(key, "-")[2])

\* C6: every week key is the date of a Monday; every event's local start
\* date lies in the seven days that begin with its key, so events share a
\* key exactly when they start in the same Monday-to-Sunday week; a week's
\* total is the sum of the durations of the events of that week and its
\* average is the total divided by 7.
Thm_C6 ==
  HasStats =>
    \A p \in DOMAIN results :
      /\ \A w \in DOMAIN weekly_stats[p] :
           LET InWeek(e) == DateOf(e.start) \in KeyDay(w)..(KeyDay(w) + 6)
               week == weekly_stats[p][w]
           IN  /\ Len(w) = 10 /\ Len(Split(w, "-")) = 3
               /\ Weekday(KeyDay(w)) = 0
               /\ CountWhere(results[p], InWeek) > 0
               /\ week.total_hours = TotalWhere(results[p], InWeek)
               /\ week.avg_hours.den # 0
               /\ week.avg_hours.num * 7 = week.total_hours * week.avg_hours.den
      /\ \A k \in 1..Len(results[p]) :
           \E w \in DOMAIN weekly_stats[p] :
              DateOf(results[p][k].start) \in KeyDay(w)..(KeyDay(w) + 6)

\* Two events of one week that start in different years share the key.
Witness_C6 ==
  /\ pc = "stats"
  /\ \E p \in DOMAIN results :
       /\ Len(results[p]) = 2
       /\ Cardinality(DOMAIN weekly_stats[p]) = 1
       /\ CivilFromDays(DateOf(results[p][1].start)).year
            # CivilFromDays(DateOf(results[p][2].start)).year
       /\ \A w \in DOMAIN weekly_stats[p] : weekly_stats[p][w].total_hours > HOUR

\* The number of days of a month of the Gregorian calendar.
TrueDaysInMonth(y, m) ==
  IF m \in {1, 3, 5, 7, 8, 10, 12} THEN 31
  ELSE IF m \in {4, 6, 9, 11} THEN 30
  ELSE IF (y % 4 = 0 /\ y % 100 # 0) \/ y % 400 = 0 THEN 29 ELSE 28

\* C7: every event is counted in the month key of its local start and in no
\* other; the days of the month computed for a key are those of the calendar
\* month; the average is the total divided by days / 7, which is not zero.
Thm_C7 ==
  HasStats =>
    \A p \in DOMAIN results :
      /\ \A m \in DOMAIN monthly_stats[p] :
           LET InMonth(e) ==
                 /\ CivilFromDays(DateOf(e.start)).year = KeyYear(m)
                 /\ CivilFromDays(DateOf(e.start)).month = KeyMonth(m)
               month == monthly_stats[p][m]
               true_days == TrueDaysInMonth(KeyYear(m), KeyMonth(m))
           IN  /\ Len(m) = 7 /\ KeyMonth(m) \in 1..12
               /\ month.event_count = CountWhere(results[p], InMonth)
               /\ month.event_count > 0
               /\ month.total_hours = TotalWhere(results[p], InMonth)
               /\ days_in_month(m) = true_days
               /\ month.avg_hours.den = true_days
               /\ month.avg_hours.num = month.total_hours * 7
      /\ \A k \in 1..Len(results[p]) :
           \E m \in DOMAIN monthly_stats[p] :
              /\ CivilFromDays(DateOf(results[p][k].start)).year = KeyYear(m)
              /\ CivilFromDays(DateOf(results[p][k].start)).month = KeyMonth(m)

\* A pattern has events in December and in the January that follows.
Witness_C7 ==
  /\ pc = "stats"
  /\ \E p \in DOMAIN results :
       \E m, n \in DOMAIN monthly_stats[p] :
          /\ KeyMonth(m) = 12 /\ KeyMonth(n) = 1 /\ KeyYear(n) = KeyYear(m) + 1
          /\ monthly_stats[p][m].total_hours > 0
          /\ monthly_stats[p][m].avg_hours.den = 31

\* C8: every pattern of the result has the seven weekday names; a weekday's
\* count is the number of the pattern's events that start on it; its average
\* is total / count when the count is positive and stays 0 otherwise, so no
\* quotient has a zero divisor.
Thm_C8 ==
  HasStats =>
    /\ DOMAIN day_dist = DOMAIN results
    /\ \A p \in DOMAIN results :
         /\ DOMAIN day_dist[p] =
              {"Monday", "Tuesday", "Wednesday", "Thursday", "Friday", "Saturday", "Sunday"}
         /\ \A n \in 0..6 :
              LET OnDayN(e) == Weekday(DateOf(e.start)) = n
                  day == day_dist[p][days[n + 1]]
              IN  /\ day.count = CountWhere(results[p], OnDayN)
                  /\ day.avg_hours.den # 0
                  /\ day.count > 0 =>
                       /\ day.avg_hours.den = day.count
                       /\ day.avg_hours.num = day.total_hours
                  /\ day.count = 0 => day.avg_hours.num = 0

\* One pattern has no event, another has two events on one weekday, three
\* hours together.
Witness_C8 ==
  /\ pc = "stats"
  /\ \E p, q \in DOMAIN results :
       /\ results[p] = <<>>
       /\ \E d \in Range(days) :
            /\ day_dist[q][d].count = 2
            /\ day_dist[q][d].total_hours = 3 * HOUR

====
